---- MODULE Spec2Model ----
(***************************************************************************)
(* A model of app_estatistica.py: the cached loader carregar_dados (drop   *)
(* missing, keep positive, one IQR pass on Preco and then one on Area) and *)
(* the Streamlit script that loads, regresses and renders on every pass.   *)
(*                                                                         *)
(* Numbers.  Preco and Area are small integers.  Quartiles by linear       *)
(* interpolation at 0.25 and 0.75 are multiples of 1/4 and the bounds      *)
(* q -/+ 1.5*iqr multiples of 1/8, so quartiles are kept as 4*q and bounds *)
(* as 8*bound: every comparison of the code is made exactly.               *)
(***************************************************************************)
EXTENDS Integers, Sequences, FiniteSets, TLC

\* ------------------------------------------------------------------ bounds

\* Largest number of rows of a table given to the cleaning pipeline.
MaxRows == 5

\* Largest number of rows of the file the script is run on.
MaxFileRows == 3

\* Largest number of runs of the script in one process.
MaxPasses == 3

\* ------------------------------------------------------------- the table

\* A missing cell (pandas NaN): it compares False with everything.
NaN == -1000

\* The loop with its two columns in the other order.
Cols_swapped == <<"Area", "Preco">>

\* for col in ['Preco', 'Area']
Cols == <<"Preco", "Area">>

\* Cell values of the tables the cleaning pipeline is run on.
PrecoVals == {NaN, 0, 1, 2, 10}
AreaVals == {NaN, 0, 1, 10}

\* Cell values of the file the script is run on, around the default input.
ScriptPrecos == {1, 2}
ScriptAreas == {0, 100, 110, 120}

Row(p, a) == [Preco |-> p, Area |-> a]

\* ----------------------------------------------------------- cleaning steps

\* df.dropna(subset=['Preco', 'Area'])
dropna(df) ==
    LET present(r) == r.Preco # NaN /\ r.Area # NaN
    IN SelectSeq(df, present)

\* a comparison with NaN is False
Gt(v, w) == v # NaN /\ w # NaN /\ v > w

\* The mask with its Area half left out.
positive_preco_only(df) ==
    LET pos(r) == Gt(r.Preco, 0)
    IN SelectSeq(df, pos)

\* df[(df['Preco'] > 0) & (df['Area'] > 0)]
positive(df) ==
    LET pos(r) == Gt(r.Preco, 0) /\ Gt(r.Area, 0)
    IN SelectSeq(df, pos)

RECURSIVE Insert(_, _)
Insert(v, s) ==
    IF s = <<>> THEN <<v>>
    ELSE IF v <= Head(s) THEN <<v>> \o s
    ELSE <<Head(s)>> \o Insert(v, Tail(s))

RECURSIVE Sorted(_)
Sorted(s) == IF s = <<>> THEN <<>> ELSE Insert(Head(s), Sorted(Tail(s)))

\* The non-missing values of a column, in table order.
Column(df, col) ==
    LET notna(r) == r[col] # NaN
        rows == SelectSeq(df, notna)
    IN [i \in 1..Len(rows) |-> rows[i][col]]

\* 4 * Series.quantile(k/4), linear interpolation between the two order
\* statistics around position (n-1)*k/4; NaN on an empty column.
quantile4(xs, k) ==
    LET n == Len(xs)
        s == Sorted(xs)
        pos4 == k * (n - 1)
        i == pos4 \div 4
        f == pos4 % 4
    IN IF n = 0 THEN NaN
       ELSE IF f = 0 THEN 4 * s[i + 1]
       ELSE (4 - f) * s[i + 1] + f * s[i + 2]

\* limite_inferior and limite_superior of one pass, times 8.
limites(df, col) ==
    LET xs == Column(df, col)
        q1 == quantile4(xs, 1)
        q3 == quantile4(xs, 3)
        iqr == q3 - q1
    IN IF Len(xs) = 0
       THEN [nan |-> TRUE, inferior |-> 0, superior |-> 0]
       ELSE [nan |-> FALSE,
             inferior |-> 2 * q1 - 3 * iqr,
             superior |-> 2 * q3 + 3 * iqr]

\* The mask with its upper half left out.
dentro_sem_superior(v, lim) ==
    /\ v # NaN
    /\ ~lim.nan
    /\ 8 * v >= lim.inferior

\* The mask with strict comparisons.
dentro_estrito(v, lim) ==
    /\ v # NaN
    /\ ~lim.nan
    /\ 8 * v > lim.inferior
    /\ 8 * v < lim.superior

\* (df[col] >= limite_inferior) & (df[col] <= limite_superior)
dentro(v, lim) ==
    /\ v # NaN
    /\ ~lim.nan
    /\ 8 * v >= lim.inferior
    /\ 8 * v <= lim.superior

\* One iteration of the loop: df = df[mask of col].
passo(df, col) ==
    LET lim == limites(df, col)
        keep(r) == dentro(r[col], lim)
    IN SelectSeq(df, keep)

\* The loop over Cols, from column i on.
RECURSIVE filtrar(_, _)
filtrar(df, i) ==
    IF i > Len(Cols) THEN df ELSE filtrar(passo(df, Cols[i]), i + 1)

\* The body of carregar_dados on the table read from the file.
carregar_dados(tabela) == filtrar(positive(dropna(tabela)), 1)

\* ------------------------------------------------------------ st.cache_data

\* 'AddressSpineUK.csv', the only argument carregar_dados is called with.
Path == "AddressSpineUK.csv"

\* The memo of @st.cache_data: a function from the arguments seen to the
\* value returned.  A call that raises stores nothing.
\* A memo that is never found.
cache_hit_never(memo, path) == FALSE

cache_hit(memo, path) == path \in DOMAIN memo

\* A memo that keeps nothing.
cache_store_nothing(memo, path, value) == memo

cache_store(memo, path, value) ==
    [p \in DOMAIN memo \cup {path} |-> IF p = path THEN value ELSE memo[p]]

\* The handler without its st.stop().
except_sem_stop == <<"st.error">>

\* except FileNotFoundError: st.error(...); st.stop()
except_FileNotFoundError == <<"st.error", "st.stop">>

\* df_imoveis = carregar_dados('AddressSpineUK.csv') inside try/except.
LoadStep(memo, present, tabela) ==
    IF cache_hit(memo, Path)
    THEN [events |-> <<"cache_hit">>, ok |-> TRUE, df |-> memo[Path],
          memo |-> memo]
    ELSE IF present
    THEN LET d == carregar_dados(tabela)
         IN [events |-> <<"read_csv", "return">>, ok |-> TRUE, df |-> d,
             memo |-> cache_store(memo, Path, d)]
    ELSE [events |-> <<"read_csv", "FileNotFoundError">> \o
                     except_FileNotFoundError,
          ok |-> FALSE, df |-> <<>>, memo |-> memo]

\* ------------------------------------------------------------- regression

RECURSIVE SumProd(_, _)
SumProd(x, y) ==
    IF x = <<>> THEN 0 ELSE Head(x) * Head(y) + SumProd(Tail(x), Tail(y))

Ones(x) == [i \in 1..Len(x) |-> 1]

NoResult == [kind |-> "none"]
NanResult == [kind |-> "nan"]
RaisedResult == [kind |-> "ValueError"]

RECURSIVE GCD(_, _)
GCD(a, b) == IF b = 0 THEN a ELSE GCD(b, a % b)

Abs(a) == IF a < 0 THEN -a ELSE a

\* The fraction n/d (d # 0) in lowest terms with a positive denominator: a
\* float is modelled by the exact number it approximates.
Frac(n, d) ==
    LET g == GCD(Abs(n), Abs(d))
    IN IF d < 0 THEN <<(-n) \div g, (-d) \div g>> ELSE <<n \div g, d \div g>>

\* stats.linregress(x, y).  Slope, intercept and r squared are exact
\* fractions <<numerator, denominator>>; p_value and std_err are never read
\* by the script.  An empty input raises; identical x values raise in the
\* scipy releases that check for them (strict) and give NaN in the others;
\* one point gives NaN (0/0).  intercept = ymean - slope * xmean.
linregress(x, y, strict) ==
    LET n == Len(x)
        sx == SumProd(x, Ones(x))
        sy == SumProd(y, Ones(y))
        ssxm == n * SumProd(x, x) - sx * sx
        ssxym == n * SumProd(x, y) - sx * sy
        ssym == n * SumProd(y, y) - sy * sy
        slope == Frac(ssxym, ssxm)
    IN IF n = 0 THEN RaisedResult
       ELSE IF ssxm = 0 /\ n > 1 /\ strict THEN RaisedResult
       ELSE IF ssxm = 0 THEN NanResult
       ELSE [kind |-> "ok",
             slope |-> slope,
             intercept |-> Frac(sy * slope[2] - slope[1] * sx, n * slope[2]),
             r_squared |-> IF ssym = 0 THEN <<0, 1>>
                           ELSE Frac(ssxym * ssxym, ssxm * ssym)]

\* The prediction with slope and intercept exchanged.
preco_previsto_trocado(reg, area) ==
    IF reg.kind # "ok" THEN [kind |-> "nan"]
    ELSE [kind |-> "ok",
          valor |-> Frac(reg.slope[1] * reg.intercept[2]
                           + reg.intercept[1] * area * reg.slope[2],
                         reg.intercept[2] * reg.slope[2])]

\* preco_previsto = intercept + slope * area_para_prever
preco_previsto(reg, area) ==
    IF reg.kind # "ok" THEN [kind |-> "nan"]
    ELSE [kind |-> "ok",
          valor |-> Frac(reg.intercept[1] * reg.slope[2]
                           + reg.slope[1] * area * reg.intercept[2],
                         reg.intercept[2] * reg.slope[2])]

\* -------------------------------------------------------------- the widget

\* value=100.0 of st.number_input
DefaultArea == 100

RECURSIVE MinOf(_)
MinOf(xs) ==
    IF Len(xs) = 1 THEN xs[1]
    ELSE LET m == MinOf(Tail(xs)) IN IF xs[1] <= m THEN xs[1] ELSE m

RECURSIVE MaxOf(_)
MaxOf(xs) ==
    IF Len(xs) = 1 THEN xs[1]
    ELSE LET m == MaxOf(Tail(xs)) IN IF xs[1] >= m THEN xs[1] ELSE m

\* st.number_input raises when value lies outside [min_value, max_value];
\* otherwise it returns the session's value, or the default on first use.
number_input_accepts(lo, hi) == lo <= DefaultArea /\ DefaultArea <= hi

number_input_value(session) ==
    IF session = <<>> THEN DefaultArea ELSE session[1]

\* "if area_para_prever:" is false only for 0.0
truthy(v) == v # 0

\* ------------------------------------------------------- the rest of a run

Sections ==
    {"title", "sample", "chart", "metrics", "equation", "number_input",
     "prediction", "conclusion"}

\* Lines 131 to 156: the prediction form and the conclusion.
PredictionPart(d, reg, session) ==
    LET areas == Column(d, "Area")
        v == number_input_value(session)
    IN IF ~number_input_accepts(MinOf(areas), MaxOf(areas))
       THEN [events |-> <<"header_prediction", "exception">>,
             entrada |-> <<>>, shown |-> <<>>]
       ELSE IF truthy(v)
       THEN [events |-> <<"header_prediction", "number_input", "prediction",
                          "conclusion">>,
             entrada |-> <<v>>, shown |-> <<preco_previsto(reg, v)>>]
       ELSE [events |-> <<"header_prediction", "number_input", "conclusion">>,
             entrada |-> <<v>>, shown |-> <<>>]

\* Lines 55 to 127 once the regression has returned reg: nothing is
\* rendered after a ValueError; a NaN result is rendered like any other.
RenderPart(reg) ==
    IF reg.kind = "ValueError"
    THEN [events |-> <<"exception">>, result |-> NoResult]
    ELSE [events |-> <<"title", "sample", "chart", "metrics", "equation">>,
          result |-> reg]

\* A run ends where st.stop() is called or an exception is not caught.
Halted(events) ==
    events # <<>> /\ events[Len(events)] \in {"st.stop", "exception"}

\* After a load that neither returned nor stopped the run, df_imoveis is
\* unbound and line 53 raises NameError.
Unbound(events) == IF Halted(events) THEN events ELSE events \o <<"exception">>

Count(events, e) == Cardinality({i \in 1..Len(events) : events[i] = e})

\* ------------------------------------------------------------------ state

VARIABLES
    csv,        \* the table of the data file
    df,         \* the working DataFrame of carregar_dados
    pc,         \* position in carregar_dados
    col,        \* index in Cols of the next loop iteration
    hist,       \* one record per loop iteration done
    again,      \* the outlier loop applied a second time to the result
    exists,     \* whether the data file is at the script's path
    memo,       \* the memo of st.cache_data
    strict,     \* the scipy installed raises on identical x values
    session,    \* the number input's value in the session: <<>> or <<v>>
    log,        \* the events of the latest run of the script
    loaded,     \* whether the latest run got df_imoveis
    df_imoveis, \* the DataFrame of the latest run
    result,     \* the regression result of the latest run
    first,      \* the regression result of the first run that computed one
    entrada,    \* area_para_prever of the latest run: <<>> or <<v>>
    shown,      \* the prediction displayed by the latest run: <<>> or <<p>>
    fileSeen,   \* whether the file existed when the latest run started
    nPasses,    \* runs of the script
    nReads,     \* calls of pd.read_csv
    nBody,      \* executions of carregar_dados that returned
    nLoaded,    \* runs that got df_imoveis
    nRegress    \* calls of stats.linregress

cleanVars == <<df, col, hist, again>>

scriptVars ==
    <<exists, memo, strict, session, log, loaded, df_imoveis,
      result, first, entrada, shown, fileSeen, nPasses, nReads, nBody,
      nLoaded, nRegress>>

vars == <<csv, pc, cleanVars, scriptVars>>

\* Rows are written to the file in this order.  Every step of the pipeline
\* keeps the relative order of the rows and reads a column only through its
\* sorted values, so a table and its permutations are cleaned alike: one
\* table per multiset of rows is written.
RowLe(r, t) == r.Preco < t.Preco \/ (r.Preco = t.Preco /\ r.Area <= t.Area)

\* No run of the script yet.
ScriptIdle ==
    /\ memo = <<>>
    /\ session = <<>>
    /\ log = <<>>
    /\ loaded = FALSE
    /\ df_imoveis = <<>>
    /\ result = NoResult
    /\ first = NoResult
    /\ entrada = <<>>
    /\ shown = <<>>
    /\ fileSeen = FALSE
    /\ nPasses = 0
    /\ nReads = 0
    /\ nBody = 0
    /\ nLoaded = 0
    /\ nRegress = 0

\* carregar_dados not entered.
CleanIdle ==
    /\ df = <<>>
    /\ col = 1
    /\ hist = <<>>
    /\ again = <<>>

\* ------------------------------------------------------- cleaning, by steps

InitClean ==
    /\ csv = <<>>
    /\ pc = "file"
    /\ CleanIdle
    /\ exists = TRUE
    /\ strict = TRUE
    /\ ScriptIdle

\* The file gets one more row before it is read.
WriteRow ==
    /\ pc = "file"
    /\ Len(csv) < MaxRows
    /\ \E p \in PrecoVals, a \in AreaVals :
          /\ csv # <<>> => RowLe(csv[Len(csv)], Row(p, a))
          /\ csv' = Append(csv, Row(p, a))
    /\ UNCHANGED <<cleanVars, pc, scriptVars>>

\* pd.read_csv and the renaming of the two columns.
ReadCsv ==
    /\ pc = "file"
    /\ df' = csv
    /\ pc' = "dropna"
    /\ UNCHANGED <<csv, col, hist, again, scriptVars>>

DropNa ==
    /\ pc = "dropna"
    /\ df' = dropna(df)
    /\ pc' = "positive"
    /\ UNCHANGED <<csv, col, hist, again, scriptVars>>

Positive ==
    /\ pc = "positive"
    /\ df' = positive(df)
    /\ pc' = "loop"
    /\ UNCHANGED <<csv, col, hist, again, scriptVars>>

\* One iteration of "for col in ['Preco', 'Area']".
OutlierPass ==
    /\ pc = "loop"
    /\ col <= Len(Cols)
    /\ df' = passo(df, Cols[col])
    /\ hist' = Append(hist, [col |-> Cols[col], pop |-> df,
                             lim |-> limites(df, Cols[col])])
    /\ col' = col + 1
    /\ UNCHANGED <<csv, pc, again, scriptVars>>

Return ==
    /\ pc = "loop"
    /\ col > Len(Cols)
    /\ pc' = "return"
    /\ UNCHANGED <<csv, df, col, hist, again, scriptVars>>

\* The outlier loop run once more, on the DataFrame returned.
Reapply ==
    /\ pc = "return"
    /\ again' = filtrar(df, 1)
    /\ pc' = "reapplied"
    /\ UNCHANGED <<csv, df, col, hist, scriptVars>>

NextClean ==
    WriteRow \/ ReadCsv \/ DropNa \/ Positive \/ OutlierPass \/ Return \/ Reapply

SpecClean == InitClean /\ [][NextClean]_vars

\* ------------------------------------------------------ the script, by runs

Init ==
    /\ csv = <<>>
    /\ pc = "script"
    /\ CleanIdle
    /\ exists \in BOOLEAN
    /\ strict \in BOOLEAN
    /\ ScriptIdle

\* One run of the script, top to bottom, with the number input's session
\* value w: the load, the regression, the report, the prediction form.
Run(w) ==
    \E load \in {LoadStep(memo, exists, csv)} :
    \E reg \in {IF load.ok
                THEN linregress(Column(load.df, "Area"),
                                Column(load.df, "Preco"), strict)
                ELSE NoResult} :
    \E mid \in {RenderPart(reg)} :
    \E pred \in {IF load.ok /\ ~Halted(mid.events)
                 THEN PredictionPart(load.df, reg, w)
                 ELSE [events |-> <<>>, entrada |-> <<>>, shown |-> <<>>]} :
    \E events \in {IF load.ok
                   THEN load.events \o <<"linregress">> \o mid.events
                            \o pred.events
                   ELSE Unbound(load.events)} :
       /\ nPasses < MaxPasses
       /\ nPasses' = nPasses + 1
       /\ session' = w
       /\ log' = events
       /\ memo' = load.memo
       /\ loaded' = load.ok
       /\ df_imoveis' = load.df
       /\ result' = IF load.ok THEN mid.result ELSE NoResult
       /\ first' = IF first = NoResult /\ load.ok THEN mid.result ELSE first
       /\ entrada' = pred.entrada
       /\ shown' = pred.shown
       /\ fileSeen' = exists
       /\ nReads' = nReads + Count(events, "read_csv")
       /\ nBody' = nBody + Count(events, "return")
       /\ nLoaded' = nLoaded + (IF load.ok THEN 1 ELSE 0)
       /\ nRegress' = nRegress + Count(events, "linregress")
       /\ UNCHANGED <<csv, pc, cleanVars, exists, strict>>

\* The session starts, or the user asks for a rerun.
Rerun == Run(session)

\* The user changes the number input, which reruns the script.  The input
\* is on the page only if the latest run rendered it, and it takes only
\* values between its min_value and max_value.
ChangeInput ==
    /\ entrada # <<>>
    /\ \E v \in ScriptAreas \cup {DefaultArea} :
          /\ v # number_input_value(session)
          /\ MinOf(Column(df_imoveis, "Area")) <= v
          /\ v <= MaxOf(Column(df_imoveis, "Area"))
          /\ Run(<<v>>)

\* One more row is written to the file.
FileAppend ==
    /\ exists
    /\ Len(csv) < MaxFileRows
    /\ \E p \in ScriptPrecos, a \in ScriptAreas :
          /\ csv # <<>> => RowLe(csv[Len(csv)], Row(p, a))
          /\ csv' = Append(csv, Row(p, a))
    /\ UNCHANGED <<cleanVars, pc, scriptVars>>

\* The file is moved away or put back: csv is its table, at the script's
\* path only while exists.
FileMove ==
    /\ exists' = ~exists
    /\ UNCHANGED <<csv, cleanVars, pc, memo, strict, session, log,
                   loaded, df_imoveis, result, first, entrada, shown,
                   fileSeen, nPasses, nReads, nBody, nLoaded, nRegress>>

Next == Rerun \/ ChangeInput \/ FileAppend \/ FileMove

Spec == Init /\ [][Next]_vars


\* ----------------------------------------------------- the cleaning claims

Returned == pc \in {"return", "reapplied"}

\* The rows of t whose column c is present and, times 8, within [lo8, hi8].
Within(t, c, lo8, hi8) ==
    LET ok(r) == r[c] # NaN /\ 8 * r[c] >= lo8 /\ 8 * r[c] <= hi8
    IN SelectSeq(t, ok)

\* C1: every record of the DataFrame carregar_dados returns is a row of the
\* file with Preco and Area both present and both strictly positive.
C1_PresentAndPositive ==
    Returned =>
        \A i \in 1..Len(df) :
            /\ \E j \in 1..Len(csv) : csv[j] = df[i]
            /\ df[i].Preco # NaN /\ df[i].Area # NaN
            /\ df[i].Preco > 0 /\ df[i].Area > 0

\* C1 witness: a file with a missing Preco, a missing Area, a Preco of 0 and
\* an Area of 0 was cleaned and a record was returned.
C1_Witness ==
    /\ pc = "return"
    /\ df # <<>>
    /\ \E j \in 1..Len(csv) : csv[j].Preco = NaN
    /\ \E j \in 1..Len(csv) : csv[j].Area = NaN
    /\ \E j \in 1..Len(csv) : csv[j].Preco = 0 /\ csv[j].Area > 0
    /\ \E j \in 1..Len(csv) : csv[j].Area = 0 /\ csv[j].Preco > 0

\* C2: after the outlier loop every retained record has its Preco within
\* [Q1 - 1.5 IQR, Q3 + 1.5 IQR] of the Preco values that entered the Preco
\* pass and its Area within those of the Area values that entered the Area
\* pass, bounds included.
C2_WithinBounds ==
    Returned =>
        LET limP == limites(hist[1].pop, "Preco")
            limA == limites(hist[2].pop, "Area")
        IN \A i \in 1..Len(df) :
              /\ ~limP.nan /\ ~limA.nan
              /\ limP.inferior <= 8 * df[i].Preco
              /\ 8 * df[i].Preco <= limP.superior
              /\ limA.inferior <= 8 * df[i].Area
              /\ 8 * df[i].Area <= limA.superior

\* C2 witness: each of the two passes removed a record and records remain.
C2_Witness ==
    /\ pc = "return"
    /\ df # <<>>
    /\ Len(hist[2].pop) < Len(hist[1].pop)
    /\ Len(df) < Len(hist[2].pop)

\* C8: the loop makes exactly two passes, Preco and then Area; the missing
\* and non-positive rows are gone before the first quartile is taken; the
\* Area bounds are those of the survivors of the Preco pass; nothing is
\* filtered after the Area pass.
C8_TwoPassesInOrder ==
    /\ pc \in {"file", "dropna", "positive"} => hist = <<>>
    /\ pc = "loop" => Len(hist) = col - 1 /\ col <= 3
    /\ Returned =>
          /\ Len(hist) = 2
          /\ hist[1].col = "Preco"
          /\ hist[2].col = "Area"
          /\ hist[1].pop = positive(dropna(csv))
          /\ \A i \in 1..Len(hist[1].pop) :
                /\ hist[1].pop[i].Preco # NaN /\ hist[1].pop[i].Preco > 0
                /\ hist[1].pop[i].Area # NaN /\ hist[1].pop[i].Area > 0
          /\ hist[1].lim = limites(hist[1].pop, "Preco")
          /\ hist[2].pop = Within(hist[1].pop, "Preco", hist[1].lim.inferior,
                                  hist[1].lim.superior)
          /\ hist[2].lim = limites(hist[2].pop, "Area")
          /\ df = Within(hist[2].pop, "Area", hist[2].lim.inferior,
                         hist[2].lim.superior)

\* C8 witness: the Preco pass changed the Area bounds, and the two passes in
\* the other order would have returned another DataFrame.
C8_Witness ==
    /\ pc = "return"
    /\ df # <<>>
    /\ hist[2].lim # limites(hist[1].pop, "Area")
    /\ passo(passo(hist[1].pop, "Area"), "Preco") # df

\* C9 as stated: the outlier loop applied to its own output returns it
\* unchanged.
C9_Idempotent == pc = "reapplied" => again = df

\* The records of t all lie within the bounds recomputed from t itself.
OwnBounds(t) ==
    \A i \in 1..Len(t) :
        /\ limites(t, "Preco").inferior <= 8 * t[i].Preco
        /\ 8 * t[i].Preco <= limites(t, "Preco").superior
        /\ limites(t, "Area").inferior <= 8 * t[i].Area
        /\ 8 * t[i].Area <= limites(t, "Area").superior

\* C9 amended: the second application never adds a record, and it returns
\* its input unchanged exactly when every record of the input lies within
\* the bounds recomputed from that input.
C9_IdempotentWithinOwnBounds ==
    pc = "reapplied" =>
        /\ Len(again) <= Len(df)
        /\ \A i \in 1..Len(again) : \E j \in 1..Len(df) : df[j] = again[i]
        /\ OwnBounds(df) <=> again = df

\* C9 witness: the first application removed a record, what it returned lies
\* within its own recomputed bounds, and the second application has run.
C9_Witness ==
    /\ pc = "reapplied"
    /\ df # <<>>
    /\ Len(df) < Len(hist[1].pop)
    /\ OwnBounds(df)

\* ------------------------------------------------------- the script claims

SectionsOf(events) == {events[i] : i \in 1..Len(events)} \cap Sections

\* The outcome of a run that found no file: one error message, then the
\* stop, no regression and no section.
ErrorOnly ==
    /\ Count(log, "st.error") = 1
    /\ Len(log) >= 2
    /\ log[Len(log) - 1] = "st.error"
    /\ log[Len(log)] = "st.stop"
    /\ Count(log, "linregress") = 0
    /\ result = NoResult
    /\ SectionsOf(log) = {}

Degenerate(d) ==
    \/ Len(d) < 2
    \/ \A i, j \in 1..Len(d) : d[i].Area = d[j].Area

\* C4 as stated: on a degenerate DataFrame the run ends in a
\* DegenerateInputError found before the regression is computed, and no NaN
\* result is produced.
C4_DegenerateChecked ==
    (nPasses > 0 /\ loaded /\ Degenerate(df_imoveis)) =>
        /\ Count(log, "DegenerateInputError") = 1
        /\ Count(log, "linregress") = 0
        /\ result.kind # "nan"

\* C5: whenever the number input has returned a value, that value lies
\* between the least and the greatest Area of the DataFrame, and a
\* prediction equal to intercept + slope * value is displayed.
C5_PredictionShown ==
    (nPasses > 0 /\ entrada # <<>>) =>
        LET v == entrada[1]
        IN /\ \E i \in 1..Len(df_imoveis) : df_imoveis[i].Area <= v
           /\ \E i \in 1..Len(df_imoveis) : df_imoveis[i].Area >= v
           /\ Count(log, "prediction") = 1
           /\ shown # <<>>
           /\ IF result.kind = "ok"
              THEN /\ shown[1].kind = "ok"
                   /\ shown[1].valor[2] > 0
                   /\ shown[1].valor[1] * result.intercept[2] * result.slope[2]
                        = shown[1].valor[2] *
                            (result.intercept[1] * result.slope[2]
                               + result.slope[1] * v * result.intercept[2])
              ELSE shown[1].kind = "nan"

\* C5 witness: a prediction for an input other than the default, on a line
\* whose slope and intercept are not 0.
C5_Witness ==
    /\ entrada # <<>>
    /\ entrada[1] # DefaultArea
    /\ result.kind = "ok"
    /\ result.slope[1] # 0
    /\ result.intercept[1] # 0
    /\ shown # <<>>

\* C6 as stated: the body of carregar_dados, whose first statement is
\* pd.read_csv, is executed at most once.
C6_BodyAtMostOnce == nReads <= 1

\* C6 amended: the body of carregar_dados returns at most once; from then on
\* the memo never changes, no run reads the file again, and every run gets
\* the memoized DataFrame.  (A run in which the read raises memoizes nothing,
\* so the body is entered again by the next run.)
C6_MemoizedAfterFirstReturn ==
    [][/\ nBody' <= 1
       /\ cache_hit(memo, Path) =>
             /\ memo' = memo
             /\ nReads' = nReads
             /\ nBody' = nBody
             /\ nPasses' # nPasses =>
                   /\ loaded'
                   /\ df_imoveis' = memo[Path]
                   /\ Count(log', "read_csv") = 0]_vars

\* C6 witness: a later run was served from the memo although the file had
\* gone or would no longer clean to the memoized DataFrame.
C6_Witness ==
    /\ nPasses >= 2
    /\ nBody = 1
    /\ Count(log, "cache_hit") = 1
    /\ ~fileSeen \/ carregar_dados(csv) # memo[Path]

\* C7 as stated: a run renders every section or none.
C7_AllOrNothing == nPasses > 0 => SectionsOf(log) \in {{}, Sections}

\* C10 as stated: the regression is computed once per DataFrame loaded.
C10_RegressionOncePerDataset == nRegress <= nBody

\* C10 amended: every run that gets the DataFrame calls linregress exactly
\* once, so the calls number the runs that got it, and each such run's
\* result equals the first one computed.
C10_RegressionOncePerRun ==
    /\ nRegress = nLoaded
    /\ nPasses > 0 => Count(log, "linregress") = (IF loaded THEN 1 ELSE 0)
    /\ loaded => result = first

\* C10 witness: a run triggered by a change of the number input computed
\* the regression again, on the memoized DataFrame.
C10_Witness ==
    /\ nRegress >= 2
    /\ nBody = 1
    /\ session # <<>>
    /\ Count(log, "cache_hit") = 1
    /\ result.kind = "ok"

====
